---- MODULE Spec2Model ----
(***************************************************************************)
(* Model of the vexination API server (vexination/api/src/server.rs): the  *)
(* publish_vex and query_vex handlers, fetch_object, the health probe, the *)
(* tokio RwLock that guards the shared Storage handle, and the zstd codec  *)
(* the handlers call.                                                      *)
(***************************************************************************)
EXTENDS Integers, Sequences, FiniteSets, TLC

\* ---------------------------------------------------------------- bounds
NProcs == 2        \* requests in flight at once
MaxLen == 2        \* longest request body
MaxByte == 1       \* largest byte value of a request body / advisory id
MaxReqs == 3       \* requests accepted in one run

Procs == 1..NProcs
Byte == 0..MaxByte
Bodies == UNION {[1..n -> Byte] : n \in 0..MaxLen}

\* Option<String>::None of QueryParams / PublishParams
NoKey == -1
\* advisory identifiers: the strings a caller or a document can name
Key == Byte
OptKey == Key \cup {NoKey}

\* ----------------------------------------------------------- zstd codec
\* A zstd frame: magic, content size, then one block (raw or run-length).
Magic == 40
BlockRaw == 0
BlockRLE == 1

AllSame(b) == \A i \in 1..Len(b) : b[i] = b[1]

\* zstd::stream::copy_encode when it succeeds
copy_encode(b) ==
    <<Magic, Len(b)>> \o
        (IF Len(b) >= 2 /\ AllSame(b) THEN <<BlockRLE, b[1]>> ELSE <<BlockRaw>> \o b)

\* zstd::stream::copy_decode: whether it succeeded, and what it wrote to the
\* output (on an error, the bytes written before the error)
copy_decode(d) ==
    IF Len(d) < 3 \/ d[1] # Magic
    THEN [ok |-> FALSE, out |-> <<>>]
    ELSE IF d[3] = BlockRaw
    THEN [ok |-> Len(d) = 3 + d[2], out |-> SubSeq(d, 4, Len(d))]
    ELSE IF d[3] = BlockRLE /\ Len(d) = 4
    THEN [ok |-> TRUE, out |-> [i \in 1..d[2] |-> d[4]]]
    ELSE [ok |-> FALSE, out |-> <<>>]

\* ------------------------------------------------------- csaf documents
\* serde_json::from_slice::<csaf::Csaf>: a body parses when it opens with
\* the document tag; its tracking id is the byte that follows.
DocTag == 1

from_slice(data) ==
    IF Len(data) >= 2 /\ data[1] = DocTag
    THEN [ok |-> TRUE, id |-> data[2]]
    ELSE [ok |-> FALSE, id |-> NoKey]

\* ------------------------------------------------------------ responses
NoResp == [status |-> 0, text |-> "", bytes |-> <<>>, size |-> 0, detail |-> ""]

Response(status, text) == [NoResp EXCEPT !.status = status, !.text = text]
BytesResponse(status, bytes) == [NoResp EXCEPT !.status = status, !.bytes = bytes]

\* ------------------------------------------------------ storage objects
\* trustification_storage::Object, and the absence of one
NoObject == [present |-> FALSE, data |-> <<>>, compressed |-> FALSE]
Object(data, compressed) == [present |-> TRUE, data |-> data, compressed |-> compressed]

\* the errors Storage::put can return
StoreErrors == {"S3", "Io"}

VARIABLES
    store,      \* Storage: the object under each key
    readers,    \* RwLock: the requests holding a read guard
    writers,    \* RwLock: the requests holding a write guard, in the order
                \* they acquired it
    waiters,    \* RwLock: the requests waiting for a guard, oldest first
    kind,       \* per request slot: "none", "query", "publish" or "health"
    pc,         \* per request slot: where its handler stands
    param,      \* per request slot: the advisory query parameter
    cve,        \* per request slot: the cve query parameter, once line 77 reads it
    advisory,   \* per request slot: the resolved advisory id
    body,       \* per request slot: the request body
    data,       \* per request slot: the bytes publish_vex hands to the store
    compressed, \* per request slot: the flag publish_vex computed
    got,        \* per request slot: what Storage::get returned
    geterr,     \* per request slot: the error Storage::get returned, "" for none
    torn,       \* per request slot: Storage::get ran while a put of its key was in flight
    putres,     \* per request slot: what Storage::put returned
    resp,       \* per request slot: the HttpResponse built
    calls,      \* per request slot: Storage calls made by this request
    published,  \* per key: the payload of the last successful publish
    overwrote,  \* per request slot: its put replaced a different payload
    lost,       \* per request slot: a publish to its id that took the write guard
                \* after it has already stored its payload
    nreqs       \* requests accepted so far

vars == <<store, readers, writers, waiters, kind, pc, param, cve, advisory, body, data,
          compressed, got, geterr, torn, putres, resp, calls, published, lost, overwrote, nreqs>>

NoPayload == [present |-> FALSE, data |-> <<>>]

\* no request has arrived, no guard is out
InitRequests ==
    /\ readers = {}
    /\ writers = <<>>
    /\ waiters = <<>>
    /\ kind = [p \in Procs |-> "none"]
    /\ pc = [p \in Procs |-> "idle"]
    /\ param = [p \in Procs |-> NoKey]
    /\ cve = [p \in Procs |-> NoKey]
    /\ advisory = [p \in Procs |-> NoKey]
    /\ body = [p \in Procs |-> <<>>]
    /\ data = [p \in Procs |-> <<>>]
    /\ compressed = [p \in Procs |-> FALSE]
    /\ got = [p \in Procs |-> NoObject]
    /\ geterr = [p \in Procs |-> ""]
    /\ torn = [p \in Procs |-> FALSE]
    /\ putres = [p \in Procs |-> ""]
    /\ resp = [p \in Procs |-> NoResp]
    /\ calls = [p \in Procs |-> 0]
    /\ published = [k \in Key |-> NoPayload]
    /\ lost = [p \in Procs |-> FALSE]
    /\ overwrote = [p \in Procs |-> FALSE]
    /\ nreqs = 0

Init ==
    /\ store = [k \in Key |-> NoObject]
    /\ InitRequests

\* a compressed object that lost its last byte in the store
Damaged == {SubSeq(copy_encode(b), 1, Len(copy_encode(b)) - 1) : b \in Bodies}

\* the server starts in front of a store that holds one damaged object
InitDamaged ==
    /\ \E k \in Key, d \in Damaged :
           store = [j \in Key |-> IF j = k THEN Object(d, TRUE) ELSE NoObject]
    /\ InitRequests

\* A put of key k has been called and has not returned.
PutInFlight(k) == \E q \in Procs : pc[q] = "p_put" /\ advisory[q] = k

\* --------------------------------------------------------------- RwLock
\* CanGrant without the exclusion: the oldest waiter gets its guard at once
CanGrantAnyway(p) ==
    /\ waiters # <<>>
    /\ Head(waiters) = p

\* tokio::sync::RwLock is fair: guards are granted in request order, a
\* write guard only when no guard is out, a read guard only when no write
\* guard is out.
CanGrant(p) ==
    /\ waiters # <<>>
    /\ Head(waiters) = p
    /\ IF kind[p] = "publish"
       THEN readers = {} /\ writers = <<>>
       ELSE writers = <<>>

\* The locals of a handler are dropped when it returns.
DropLocals(p) ==
    /\ kind' = [kind EXCEPT ![p] = "none"]
    /\ pc' = [pc EXCEPT ![p] = "idle"]
    /\ param' = [param EXCEPT ![p] = NoKey]
    /\ cve' = [cve EXCEPT ![p] = NoKey]
    /\ advisory' = [advisory EXCEPT ![p] = NoKey]
    /\ body' = [body EXCEPT ![p] = <<>>]
    /\ data' = [data EXCEPT ![p] = <<>>]
    /\ compressed' = [compressed EXCEPT ![p] = FALSE]
    /\ got' = [got EXCEPT ![p] = NoObject]
    /\ geterr' = [geterr EXCEPT ![p] = ""]
    /\ torn' = [torn EXCEPT ![p] = FALSE]
    /\ putres' = [putres EXCEPT ![p] = ""]
    /\ resp' = [resp EXCEPT ![p] = NoResp]
    /\ calls' = [calls EXCEPT ![p] = 0]
    /\ overwrote' = [overwrote EXCEPT ![p] = FALSE]
    /\ lost' = [lost EXCEPT ![p] = FALSE]

\* ------------------------------------------------------------ query_vex
\* refuse_query with the two messages exchanged
refuse_query_swapped(c) ==
    IF c # NoKey
    THEN Response(400, "Missing valid advisory or CVE")
    ELSE Response(400, "CVE lookup is not yet supported")

\* lines 74-83: the response that refuses a query without an advisory
refuse_query(c) ==
    IF c # NoKey
    THEN Response(400, "CVE lookup is not yet supported")
    ELSE Response(400, "Missing valid advisory or CVE")

\* lines 72-85: the parameters are read; with an advisory the read guard is
\* requested, otherwise the request is refused.
query_vex(p, adv, c) ==
    /\ pc[p] = "idle"
    /\ nreqs < MaxReqs
    /\ nreqs' = nreqs + 1
    /\ kind' = [kind EXCEPT ![p] = "query"]
    /\ param' = [param EXCEPT ![p] = adv]
    /\ IF adv # NoKey
       THEN /\ advisory' = [advisory EXCEPT ![p] = adv]
            /\ waiters' = Append(waiters, p)
            /\ pc' = [pc EXCEPT ![p] = "q_wait"]
            /\ UNCHANGED <<cve, resp>>
       ELSE /\ cve' = [cve EXCEPT ![p] = c]
            /\ resp' = [resp EXCEPT ![p] = refuse_query(c)]
            /\ pc' = [pc EXCEPT ![p] = "q_refused"]
            /\ UNCHANGED <<advisory, waiters>>
    /\ UNCHANGED <<store, readers, writers, body, data, compressed, got, geterr, torn,
                   putres, calls, published, lost, overwrote>>

\* read_acquired that does not wait for the writer to release
read_acquired_early(p) ==
    /\ pc[p] = "q_wait"
    /\ CanGrantAnyway(p)
    /\ waiters' = Tail(waiters)
    /\ readers' = readers \cup {p}
    /\ pc' = [pc EXCEPT ![p] = "q_get"]
    /\ UNCHANGED <<store, writers, kind, param, cve, advisory, body, data, compressed,
                   got, geterr, torn, putres, resp, calls, published, lost, overwrote, nreqs>>

\* line 85: state.storage.read().await returns the guard
read_acquired(p) ==
    /\ pc[p] = "q_wait"
    /\ CanGrant(p)
    /\ waiters' = Tail(waiters)
    /\ readers' = readers \cup {p}
    /\ pc' = [pc EXCEPT ![p] = "q_get"]
    /\ UNCHANGED <<store, writers, kind, param, cve, advisory, body, data, compressed,
                   got, geterr, torn, putres, resp, calls, published, lost, overwrote, nreqs>>

\* Storage::get: the object under the key, or none (NotFound)
storage_get(k) == store[k]

\* line 42: storage.get(&key).await returns
get_returns(p) ==
    /\ pc[p] = "q_get"
    /\ got' = [got EXCEPT ![p] = storage_get(advisory[p])]
    /\ geterr' = [geterr EXCEPT ![p] =
                      IF storage_get(advisory[p]).present THEN "" ELSE "NotFound"]
    /\ torn' = [torn EXCEPT ![p] = PutInFlight(advisory[p])]
    /\ calls' = [calls EXCEPT ![p] = @ + 1]
    /\ pc' = [pc EXCEPT ![p] = "q_fetch"]
    /\ UNCHANGED <<store, readers, writers, waiters, kind, param, cve, advisory, body,
                   data, compressed, putres, resp, published, lost, overwrote, nreqs>>

\* line 42 with a store that cannot be read: storage.get(&key).await
\* returns Err(e) whatever the store holds under the key
get_fails(p, e) ==
    /\ pc[p] = "q_get"
    /\ got' = [got EXCEPT ![p] = NoObject]
    /\ geterr' = [geterr EXCEPT ![p] = e]
    /\ torn' = [torn EXCEPT ![p] = PutInFlight(advisory[p])]
    /\ calls' = [calls EXCEPT ![p] = @ + 1]
    /\ pc' = [pc EXCEPT ![p] = "q_fetch"]
    /\ UNCHANGED <<store, readers, writers, waiters, kind, param, cve, advisory, body,
                   data, compressed, putres, resp, published, lost, overwrote, nreqs>>

\* fetch_object that skips the decode of a compressed object
fetch_object_undecoded(obj) ==
    IF obj.present
    THEN BytesResponse(200, obj.data)
    ELSE BytesResponse(404, <<>>)

\* fetch_object that reports a failed get as an internal error
fetch_object_err500(obj) ==
    IF obj.present
    THEN IF obj.compressed
         THEN LET out == copy_decode(obj.data)
              IN  IF out.ok
                  THEN BytesResponse(200, out.out)
                  ELSE Response(500, "Unable to decode object")
         ELSE BytesResponse(200, obj.data)
    ELSE Response(500, "Unable to decode object")

\* fetch_object that sends what the decoder wrote before it failed
fetch_object_partial(obj) ==
    IF obj.present
    THEN IF obj.compressed
         THEN LET out == copy_decode(obj.data)
              IN  IF out.ok
                  THEN BytesResponse(200, out.out)
                  ELSE BytesResponse(500, out.out)
         ELSE BytesResponse(200, obj.data)
    ELSE BytesResponse(404, <<>>)

\* lines 42-59: the response fetch_object builds from what get returned
fetch_object(obj) ==
    IF obj.present
    THEN IF obj.compressed
         THEN LET out == copy_decode(obj.data)
              IN  IF out.ok
                  THEN BytesResponse(200, out.out)
                  ELSE Response(500, "Unable to decode object")
         ELSE BytesResponse(200, obj.data)
    ELSE BytesResponse(404, <<>>)

\* fetch_responds that reports a read error of the store as a store failure
fetch_responds_by_kind(p) ==
    /\ pc[p] = "q_fetch"
    /\ resp' = [resp EXCEPT ![p] = IF geterr[p] \in StoreErrors
                                   THEN Response(500, "Error reading VEX")
                                   ELSE fetch_object(got[p])]
    /\ pc' = [pc EXCEPT ![p] = "q_drop"]
    /\ UNCHANGED <<store, readers, writers, waiters, kind, param, cve, advisory, body,
                   data, compressed, got, geterr, torn, putres, calls, published, lost,
                   overwrote, nreqs>>

\* lines 43-59: fetch_object decodes and builds the response
fetch_responds(p) ==
    /\ pc[p] = "q_fetch"
    /\ resp' = [resp EXCEPT ![p] = fetch_object(got[p])]
    /\ pc' = [pc EXCEPT ![p] = "q_drop"]
    /\ UNCHANGED <<store, readers, writers, waiters, kind, param, cve, advisory, body,
                   data, compressed, got, geterr, torn, putres, calls, published, lost,
                   overwrote, nreqs>>

\* query_vex_return that forgets to drop the read guard
query_vex_return_leaky(p) ==
    /\ pc[p] = "q_drop"
    /\ readers' = readers
    /\ DropLocals(p)
    /\ UNCHANGED <<store, writers, waiters, published, nreqs>>

\* line 87: query_vex returns the response; the read guard and the locals
\* are dropped
query_vex_return(p) ==
    /\ pc[p] = "q_drop"
    /\ readers' = readers \ {p}
    /\ DropLocals(p)
    /\ UNCHANGED <<store, writers, waiters, published, nreqs>>

\* ---------------------------------------------------------- publish_vex
\* derive_advisory that stores an unparseable body under the empty id
derive_advisory_lenient(adv, bytes) ==
    IF adv # NoKey
    THEN [ok |-> TRUE, id |-> adv]
    ELSE IF from_slice(bytes).ok THEN from_slice(bytes) ELSE [ok |-> TRUE, id |-> 0]

\* derive_advisory that prefers the tracking id of a parseable body
derive_advisory_document_first(adv, bytes) ==
    IF from_slice(bytes).ok
    THEN from_slice(bytes)
    ELSE [ok |-> adv # NoKey, id |-> adv]

\* lines 96-106: the advisory id of a publish, or the refusal of the body
derive_advisory(adv, bytes) ==
    IF adv # NoKey
    THEN [ok |-> TRUE, id |-> adv]
    ELSE from_slice(bytes)

\* lines 94-108: the id is derived; with an id the write guard is requested,
\* otherwise the request is refused.
publish_vex(p, adv, bytes) ==
    /\ pc[p] = "idle"
    /\ nreqs < MaxReqs
    /\ nreqs' = nreqs + 1
    /\ kind' = [kind EXCEPT ![p] = "publish"]
    /\ param' = [param EXCEPT ![p] = adv]
    /\ body' = [body EXCEPT ![p] = bytes]
    /\ LET id == derive_advisory(adv, bytes)
       IN  IF id.ok
           THEN /\ advisory' = [advisory EXCEPT ![p] = id.id]
                /\ waiters' = Append(waiters, p)
                /\ pc' = [pc EXCEPT ![p] = "p_wait"]
                /\ resp' = resp
           ELSE /\ resp' = [resp EXCEPT ![p] = Response(400, "")]
                /\ pc' = [pc EXCEPT ![p] = "p_refused"]
                /\ UNCHANGED <<advisory, waiters>>
    /\ UNCHANGED <<store, readers, writers, cve, data, compressed, got, geterr, torn,
                   putres, calls, published, lost, overwrote>>

\* write_acquired that takes a guard that excludes nobody
write_acquired_shared(p) ==
    /\ pc[p] = "p_wait"
    /\ CanGrantAnyway(p)
    /\ waiters' = Tail(waiters)
    /\ writers' = Append(writers, p)
    /\ pc' = [pc EXCEPT ![p] = "p_encode"]
    /\ UNCHANGED <<store, readers, kind, param, cve, advisory, body, data, compressed,
                   got, geterr, torn, putres, resp, calls, published, lost, overwrote, nreqs>>

\* line 108: state.storage.write().await returns the guard
write_acquired(p) ==
    /\ pc[p] = "p_wait"
    /\ CanGrant(p)
    /\ waiters' = Tail(waiters)
    /\ writers' = Append(writers, p)
    /\ pc' = [pc EXCEPT ![p] = "p_encode"]
    /\ UNCHANGED <<store, readers, kind, param, cve, advisory, body, data, compressed,
                   got, geterr, torn, putres, resp, calls, published, lost, overwrote, nreqs>>

\* encode_or_raw that flags the raw bytes as compressed
encode_or_raw_flagged(bytes, encoded) ==
    IF encoded
    THEN [data |-> copy_encode(bytes), compressed |-> TRUE]
    ELSE [data |-> bytes, compressed |-> TRUE]

\* encode_or_raw that stores the encoder's unfinished output when it failed
encode_or_raw_partial(bytes, encoded) ==
    IF encoded
    THEN [data |-> copy_encode(bytes), compressed |-> TRUE]
    ELSE [data |-> <<Magic>>, compressed |-> FALSE]

\* lines 110-113: the bytes and the flag to store, after copy_encode
\* succeeded (encoded) or failed
encode_or_raw(bytes, encoded) ==
    IF encoded
    THEN [data |-> copy_encode(bytes), compressed |-> TRUE]
    ELSE [data |-> bytes, compressed |-> FALSE]

\* put_called that also stores the object before the put it awaits
put_called_twice(p, encoded) ==
    /\ pc[p] = "p_encode"
    /\ LET v == encode_or_raw(body[p], encoded)
       IN  /\ data' = [data EXCEPT ![p] = v.data]
           /\ compressed' = [compressed EXCEPT ![p] = v.compressed]
           /\ store' = [store EXCEPT ![advisory[p]] = Object(v.data, v.compressed)]
    /\ calls' = [calls EXCEPT ![p] = @ + 2]
    /\ pc' = [pc EXCEPT ![p] = "p_put"]
    /\ UNCHANGED <<readers, writers, waiters, kind, param, cve, advisory, body,
                   got, geterr, torn, putres, resp, published, lost, overwrote, nreqs>>

\* lines 109-116: the body is encoded and storage.put is called
put_called(p, encoded) ==
    /\ pc[p] = "p_encode"
    /\ LET v == encode_or_raw(body[p], encoded)
       IN  /\ data' = [data EXCEPT ![p] = v.data]
           /\ compressed' = [compressed EXCEPT ![p] = v.compressed]
    /\ calls' = [calls EXCEPT ![p] = @ + 1]
    /\ pc' = [pc EXCEPT ![p] = "p_put"]
    /\ UNCHANGED <<store, readers, writers, waiters, kind, param, cve, advisory, body,
                   got, geterr, torn, putres, resp, published, lost, overwrote, nreqs>>

\* Storage::put when it succeeds: the object under the key is replaced
storage_put(st, k, obj) == [st EXCEPT ![k] = obj]

\* created that reports the length of the payload before compression
created_decoded_size(bytes) ==
    [NoResp EXCEPT !.status = 201, !.text = "VEX of size {} stored successfully",
                   !.size = IF copy_decode(bytes).ok
                            THEN Len(copy_decode(bytes).out)
                            ELSE Len(bytes)]

\* lines 117-121
created(bytes) ==
    [NoResp EXCEPT !.status = 201, !.text = "VEX of size {} stored successfully",
                   !.size = Len(bytes)]

\* lines 122-126
store_error(e) ==
    [NoResp EXCEPT !.status = 500, !.text = "Error storing VEX: {:?}", !.detail = e]

\* lines 116-126: the response publish_vex builds from what put returned
put_response(res, bytes) ==
    IF res = "Ok" THEN created(bytes) ELSE store_error(res)

\* the write-guard holders that acquired it before p did
Earlier(p) ==
    {writers[i] : i \in {j \in 1..Len(writers) : \E n \in j+1..Len(writers) : writers[n] = p}}

\* lines 116-126: storage.put(...).await returns Ok or Err(e)
put_returns(p, outcome) ==
    /\ pc[p] = "p_put"
    /\ putres' = [putres EXCEPT ![p] = outcome]
    /\ resp' = [resp EXCEPT ![p] = put_response(outcome, data[p])]
    /\ IF outcome = "Ok"
       THEN /\ store' = storage_put(store, advisory[p], Object(data[p], compressed[p]))
            /\ published' = [published EXCEPT ![advisory[p]] =
                                 [present |-> TRUE, data |-> body[p]]]
            /\ overwrote' = [overwrote EXCEPT ![p] =
                                 /\ published[advisory[p]].present
                                 /\ published[advisory[p]].data # body[p]]
            /\ lost' = [q \in Procs |->
                           \/ lost[q]
                           \/ /\ q \in Earlier(p)
                              /\ advisory[q] = advisory[p]
                              /\ pc[q] \in {"p_encode", "p_put"}]
       ELSE UNCHANGED <<store, published, overwrote, lost>>
    /\ pc' = [pc EXCEPT ![p] = "p_drop"]
    /\ UNCHANGED <<readers, writers, waiters, kind, param, cve, advisory, body, data,
                   compressed, got, geterr, torn, calls, nreqs>>

\* line 128: publish_vex returns the response; the write guard and the
\* locals are dropped
publish_vex_return(p) ==
    /\ pc[p] = "p_drop"
    /\ writers' = SelectSeq(writers, LAMBDA q : q # p)
    /\ DropLocals(p)
    /\ UNCHANGED <<store, readers, waiters, published, nreqs>>

\* --------------------------------------------------------------- health
\* health that answers only while no publish holds or awaits the handle
health_behind_lock(p) ==
    /\ pc[p] = "idle"
    /\ nreqs < MaxReqs
    /\ writers = <<>>
    /\ waiters = <<>>
    /\ nreqs' = nreqs + 1
    /\ kind' = [kind EXCEPT ![p] = "health"]
    /\ resp' = [resp EXCEPT ![p] = BytesResponse(200, <<>>)]
    /\ pc' = [pc EXCEPT ![p] = "h_ok"]
    /\ UNCHANGED <<store, readers, writers, waiters, param, cve, advisory, body, data,
                   compressed, got, geterr, torn, putres, calls, published, lost, overwrote>>

\* lines 62-64
health(p) ==
    /\ pc[p] = "idle"
    /\ nreqs < MaxReqs
    /\ nreqs' = nreqs + 1
    /\ kind' = [kind EXCEPT ![p] = "health"]
    /\ resp' = [resp EXCEPT ![p] = BytesResponse(200, <<>>)]
    /\ pc' = [pc EXCEPT ![p] = "h_ok"]
    /\ UNCHANGED <<store, readers, writers, waiters, param, cve, advisory, body, data,
                   compressed, got, geterr, torn, putres, calls, published, lost, overwrote>>

\* lines 78-82, 103 and 63: a handler that took no guard returns its response
plain_return(p) ==
    /\ pc[p] \in {"q_refused", "p_refused", "h_ok"}
    /\ DropLocals(p)
    /\ UNCHANGED <<store, readers, writers, waiters, published, nreqs>>

\* ----------------------------------------------------------------- Next
Next ==
    \/ \E p \in Procs, adv \in OptKey, c \in OptKey : query_vex(p, adv, c)
    \/ \E p \in Procs : read_acquired(p)
    \/ \E p \in Procs : get_returns(p)
    \/ \E p \in Procs : fetch_responds(p)
    \/ \E p \in Procs : query_vex_return(p)
    \/ \E p \in Procs, adv \in OptKey, bytes \in Bodies : publish_vex(p, adv, bytes)
    \/ \E p \in Procs : write_acquired(p)
    \/ \E p \in Procs, encoded \in BOOLEAN : put_called(p, encoded)
    \/ \E p \in Procs, outcome \in {"Ok"} \cup StoreErrors : put_returns(p, outcome)
    \/ \E p \in Procs : publish_vex_return(p)
    \/ \E p \in Procs : health(p)
    \/ \E p \in Procs : plain_return(p)

Spec == Init /\ [][Next]_vars

\* the same server in front of a store that holds a damaged object
SpecDamaged == InitDamaged /\ [][Next]_vars

\* the same server in front of a store whose reads can fail
NextReadFault ==
    \/ Next
    \/ \E p \in Procs, e \in StoreErrors : get_fails(p, e)

SpecReadFault == Init /\ [][NextReadFault]_vars

\* the store holds one damaged object under the first key
InitLive ==
    /\ store = [j \in Key |-> IF j = 0
                              THEN Object(SubSeq(copy_encode(<<DocTag, 0>>), 1, 3), TRUE)
                              ELSE NoObject]
    /\ InitRequests

\* The runtime polls every handler whose await is ready: the lock grants a
\* guard that can be granted, every store call returns, and a handler that
\* is not awaiting runs to its next await or to its return.
Fairness ==
    \A p \in Procs :
        /\ WF_vars(read_acquired(p))
        /\ WF_vars(get_returns(p))
        /\ WF_vars(fetch_responds(p))
        /\ WF_vars(query_vex_return(p))
        /\ WF_vars(write_acquired(p))
        /\ WF_vars(\E encoded \in BOOLEAN : put_called(p, encoded))
        /\ WF_vars(\E outcome \in {"Ok"} \cup StoreErrors : put_returns(p, outcome))
        /\ WF_vars(publish_vex_return(p))

\* the server in front of a store that holds a damaged object and whose
\* reads can fail, run by a fair runtime
SpecLive == InitLive /\ [][NextReadFault]_vars /\ Fairness

\* ------------------------------------------------------------- helpers
Range(q) == {q[i] : i \in 1..Len(q)}

\* the request holds the read guard / the write guard
HoldsRead(p) == pc[p] \in {"q_get", "q_fetch", "q_drop"}
HoldsWrite(p) == pc[p] \in {"p_encode", "p_put", "p_drop"}

\* the payload an object holds
Payload(obj) == IF obj.compressed THEN copy_decode(obj.data).out ELSE obj.data

\* the bytes and flag publish_vex stores for a payload
StoredAs(bytes, flag) == Object(IF flag THEN copy_encode(bytes) ELSE bytes, flag)

\* ---------------------------------------------------------------- C1
\* C1: a lookup of an identifier under which a payload was successfully
\* published (the last such publish counting) has built the response 200
\* with exactly that payload as its body, whether the object was stored
\* compressed or raw.
C1_LookupReturnsPublished ==
    \A p \in Procs :
        (pc[p] = "q_drop" /\ published[advisory[p]].present)
            => resp[p] = BytesResponse(200, published[advisory[p]].data)

\* a lookup answered 200 from an object stored raw after a failed
\* compression, while another identifier holds a compressed object
C1_Witness ==
    \E p \in Procs, k \in Key :
        /\ pc[p] = "q_drop"
        /\ store[advisory[p]].present
        /\ ~store[advisory[p]].compressed
        /\ published[advisory[p]].data # <<>>
        /\ resp[p] = BytesResponse(200, published[advisory[p]].data)
        /\ store[k].present
        /\ store[k].compressed

\* ---------------------------------------------------------------- C2
\* C2: the store handle is held by nobody, by lookups only, or by exactly
\* one publish; a publish holding it excludes every other holder, and a
\* store put is in flight only under such an exclusive hold.
C2_ReadersOrOneWriter ==
    /\ \A p \in Procs : (HoldsRead(p) <=> p \in readers) /\ (HoldsWrite(p) <=> p \in Range(writers))
    /\ \A p, q \in Procs :
           (HoldsWrite(p) /\ q # p) => (~HoldsWrite(q) /\ ~HoldsRead(q))
    /\ \A p \in Procs :
           pc[p] = "p_put" => (writers = <<p>> /\ readers = {})

\* a put is in flight under the write guard while a lookup waits for the handle
C2_Witness ==
    \E p, q \in Procs :
        /\ pc[p] = "p_put"
        /\ pc[q] = "q_wait"

\* ---------------------------------------------------------------- C3
\* C3: after a successful publish the object under its identifier is the
\* one object built from its payload, wholly replacing the earlier one, and
\* no publish to that identifier that took the exclusive handle later has
\* stored before it: the last to acquire the handle wins.
C3_LastWriterWins ==
    /\ \A k \in Key :
           published[k].present =>
               (store[k].present /\ Payload(store[k]) = published[k].data)
    /\ \A p \in Procs :
           (pc[p] = "p_drop" /\ putres[p] = "Ok") =>
               /\ ~lost[p]
               /\ store[advisory[p]] = StoredAs(body[p], compressed[p])
               /\ published[advisory[p]].data = body[p]

\* a successful publish has replaced a different payload under its identifier
C3_Witness ==
    \E p \in Procs :
        /\ pc[p] = "p_drop"
        /\ putres[p] = "Ok"
        /\ overwrote[p]
        /\ Payload(store[advisory[p]]) = body[p]

\* ---------------------------------------------------------------- C4
\* C4: for every stored object the compressed flag is true exactly when the
\* stored bytes are the encoding of the published payload, and raw bytes are
\* the payload itself; what a lookup got from the store obeys the same rule.
C4_FlagAgreesWithBytes ==
    /\ \A k \in Key :
           store[k].present =>
               /\ published[k].present
               /\ store[k].compressed <=> store[k].data = copy_encode(published[k].data)
               /\ ~store[k].compressed => store[k].data = published[k].data
    /\ \A p \in Procs :
           (pc[p] \in {"q_fetch", "q_drop"} /\ got[p].present) =>
               /\ got[p].compressed <=>
                      got[p].data = copy_encode(published[advisory[p]].data)
               /\ got[p].compressed => copy_decode(got[p].data).ok
               /\ ~got[p].compressed => got[p].data = published[advisory[p]].data

\* a lookup holds a raw object while the store also holds a compressed one
C4_Witness ==
    \E p \in Procs, k \in Key :
        /\ pc[p] = "q_fetch"
        /\ got[p].present
        /\ ~got[p].compressed
        /\ got[p].data # <<>>
        /\ store[k].present
        /\ store[k].compressed

\* ---------------------------------------------------------------- C5
\* C5: a publish without an explicit advisory whose body does not parse is
\* refused with 400; it makes no store call, takes no place in the lock,
\* and accepting it leaves the store unchanged.
C5_UnparseableRefused ==
    [][\A p \in Procs :
          (kind'[p] = "publish" /\ param'[p] = NoKey /\ ~from_slice(body'[p]).ok) =>
              /\ pc'[p] = "p_refused"
              /\ resp'[p] = Response(400, "")
              /\ calls'[p] = 0
              /\ p \notin readers'
              /\ p \notin Range(writers')
              /\ p \notin Range(waiters')
              /\ (pc[p] = "idle" => store' = store)]_vars

\* an unparseable publish was refused while the store holds an object
C5_Witness ==
    \E p \in Procs, k \in Key :
        /\ pc[p] = "p_refused"
        /\ param[p] = NoKey
        /\ body[p] # <<>>
        /\ store[k].present

\* ---------------------------------------------------------------- C6
\* C6: a lookup of an identifier that no publish has stored responds 404
\* with an empty body, not 500 and not 200, whatever is stored under other
\* identifiers.
C6_UnknownIsNotFound ==
    \A p \in Procs :
        (pc[p] = "q_drop" /\ ~published[advisory[p]].present)
            => resp[p] = BytesResponse(404, <<>>)

\* a lookup of an unpublished identifier answered 404 while another
\* identifier holds a compressed object
C6_Witness ==
    \E p \in Procs, k \in Key :
        /\ pc[p] = "q_drop"
        /\ ~published[advisory[p]].present
        /\ resp[p].status = 404
        /\ k # advisory[p]
        /\ store[k].present
        /\ store[k].compressed

\* ---------------------------------------------------------------- C7
\* C7: when put returns, either it succeeded, the response is 201 and the
\* object under the identifier is the new payload with the right flag, or it
\* failed, the response is 500 with the store's error and the store is as it
\* was; and no lookup reads a key while a put of it is in flight.
C7_NoPartialWrite ==
    [][/\ \A p \in Procs :
             (pc[p] = "p_put" /\ pc'[p] = "p_drop") =>
                 \/ /\ putres'[p] = "Ok"
                    /\ resp'[p].status = 201
                    /\ store'[advisory[p]] = StoredAs(body[p], compressed[p])
                    /\ Payload(store'[advisory[p]]) = body[p]
                 \/ /\ putres'[p] \in StoreErrors
                    /\ resp'[p].status = 500
                    /\ resp'[p].detail = putres'[p]
                    /\ store' = store
       /\ \A q \in Procs : ~torn'[q]]_vars

\* a put has failed over an existing object while a lookup waits for the handle
C7_Witness ==
    \E p, q \in Procs :
        /\ pc[p] = "p_drop"
        /\ putres[p] \in StoreErrors
        /\ resp[p].status = 500
        /\ store[advisory[p]].present
        /\ Payload(store[advisory[p]]) # body[p]
        /\ pc[q] = "q_wait"
        /\ advisory[q] = advisory[p]

\* ---------------------------------------------------------------- C8
\* C8: a publish with an explicit advisory is never refused and uses it as
\* the key whatever the body holds; without one the key is the tracking id
\* of the parsed body, and the payload is stored under that key.
C8_IdentifierDerivation ==
    \A p \in Procs :
        kind[p] = "publish" =>
            /\ IF param[p] # NoKey
               THEN pc[p] # "p_refused" /\ advisory[p] = param[p]
               ELSE IF from_slice(body[p]).ok
                    THEN pc[p] # "p_refused" /\ advisory[p] = from_slice(body[p]).id
                    ELSE pc[p] = "p_refused"
            /\ (pc[p] = "p_drop" /\ putres[p] = "Ok") =>
                   Payload(store[advisory[p]]) = body[p]

\* a document naming one tracking id was stored under another, explicit one
C8_Witness ==
    \E p \in Procs :
        /\ pc[p] = "p_drop"
        /\ putres[p] = "Ok"
        /\ param[p] # NoKey
        /\ from_slice(body[p]).ok
        /\ from_slice(body[p]).id # param[p]
        /\ store[param[p]].present
        /\ ~store[from_slice(body[p]).id].present

\* ---------------------------------------------------------------- C9
\* C9: what a publish hands to the store is either the encoder output with
\* compressed = true or, when encoding failed, the original bytes with
\* compressed = false; the response is 201 whenever put succeeds, and only a
\* store error makes it anything else.
C9_CompressionNeverFatal ==
    \A p \in Procs :
        pc[p] \in {"p_put", "p_drop"} =>
            /\ \/ compressed[p] /\ data[p] = copy_encode(body[p])
               \/ ~compressed[p] /\ data[p] = body[p]
            /\ pc[p] = "p_drop" =>
                   /\ putres[p] = "Ok" =>
                          /\ resp[p].status = 201
                          /\ store[advisory[p]] = Object(data[p], compressed[p])
                   /\ resp[p].status # 201 => putres[p] \in StoreErrors

\* a publish whose compression failed stored the raw bytes and answered 201
C9_Witness ==
    \E p \in Procs :
        /\ pc[p] = "p_drop"
        /\ ~compressed[p]
        /\ body[p] # <<>>
        /\ resp[p].status = 201
        /\ store[advisory[p]] = Object(body[p], FALSE)

\* --------------------------------------------------------------- C10
\* C10: the size in a 201 response is the length of the bytes persisted:
\* of the encoder output when stored compressed, of the payload when raw.
C10_ReportedSize ==
    \A p \in Procs :
        (pc[p] = "p_drop" /\ resp[p].status = 201) =>
            /\ resp[p].size = Len(store[advisory[p]].data)
            /\ resp[p].size = IF store[advisory[p]].compressed
                              THEN Len(copy_encode(body[p]))
                              ELSE Len(body[p])

\* a compressed publish reported a size that differs from its payload's
C10_Witness ==
    \E p \in Procs :
        /\ pc[p] = "p_drop"
        /\ resp[p].status = 201
        /\ store[advisory[p]].compressed
        /\ resp[p].size # Len(body[p])

\* --------------------------------------------------------------- C11
\* C11: a lookup that got an object flagged compressed whose bytes do not
\* decode responds 500 "Unable to decode object" with none of the decoder's
\* output; the bytes of any lookup response are a complete payload (status
\* 200) or empty.
C11_NoPartialOutput ==
    \A p \in Procs :
        pc[p] = "q_drop" =>
            /\ (got[p].present /\ got[p].compressed /\ ~copy_decode(got[p].data).ok)
                   => resp[p] = Response(500, "Unable to decode object")
            /\ resp[p].status # 200 => resp[p].bytes = <<>>
            /\ resp[p].status = 200 =>
                   resp[p].bytes = IF got[p].compressed
                                   THEN copy_decode(got[p].data).out
                                   ELSE got[p].data

\* a decode failed after the decoder had written part of the payload
C11_Witness ==
    \E p \in Procs :
        /\ pc[p] = "q_drop"
        /\ got[p].present
        /\ got[p].compressed
        /\ ~copy_decode(got[p].data).ok
        /\ copy_decode(got[p].data).out # <<>>
        /\ resp[p].status = 500

\* --------------------------------------------------------------- C12
\* C12: a lookup without an advisory is refused with 400, with the body
\* "CVE lookup is not yet supported" when a cve was given and "Missing valid
\* advisory or CVE" when not; it makes no store call and neither holds nor
\* awaits the store handle.
C12_LookupWithoutAdvisory ==
    \A p \in Procs :
        (kind[p] = "query" /\ param[p] = NoKey) =>
            /\ pc[p] = "q_refused"
            /\ resp[p].status = 400
            /\ resp[p].bytes = <<>>
            /\ resp[p].text = IF cve[p] # NoKey
                              THEN "CVE lookup is not yet supported"
                              ELSE "Missing valid advisory or CVE"
            /\ calls[p] = 0
            /\ p \notin readers
            /\ p \notin Range(writers)
            /\ p \notin Range(waiters)

\* one lookup refused for its cve and one for giving nothing, side by side
C12_Witness ==
    \E p, q \in Procs :
        /\ pc[p] = "q_refused"
        /\ cve[p] # NoKey
        /\ pc[q] = "q_refused"
        /\ cve[q] = NoKey

\* --------------------------------------------------------------- C13
\* C13: the health probe answers 200 with an empty body without a store call
\* and without holding or awaiting the store handle, and a free worker can
\* serve it in every state, whoever holds or awaits the handle.
C13_HealthBypasses ==
    \A p \in Procs :
        /\ kind[p] = "health" =>
               /\ pc[p] = "h_ok"
               /\ resp[p] = BytesResponse(200, <<>>)
               /\ calls[p] = 0
               /\ p \notin readers
               /\ p \notin Range(writers)
               /\ p \notin Range(waiters)
        /\ (pc[p] = "idle" /\ nreqs < MaxReqs) => ENABLED health(p)

\* the probe has answered while a publish holds the handle for its put
C13_Witness ==
    \E p, q \in Procs :
        /\ pc[p] = "h_ok"
        /\ resp[p].status = 200
        /\ pc[q] = "p_put"

\* --------------------------------------------------------------- C15
\* C15: whenever a publish holds the exclusive handle its compression has
\* already completed: no publish holds the write guard with its encode still
\* to run.
C15_EncodeBeforeWriteLock ==
    \A p \in Procs : p \in Range(writers) => pc[p] # "p_encode"

\* --------------------------------------------------------------- C16
\* C16: a lookup that got a compressed object from the store no longer holds
\* the shared handle when it comes to decode it.
C16_DecodeOutsideReadLock ==
    \A p \in Procs :
        (pc[p] = "q_fetch" /\ got[p].present /\ got[p].compressed) => p \notin readers

\* --------------------------------------------------------------- C17
\* C17: lookups of one identifier that hold the shared handle together have
\* built the same response, a 200 with the published bytes when the
\* identifier is published; while a publish holds the handle every lookup of
\* any identifier is waiting and cannot be granted the handle; and a waiting
\* publish cannot be granted it while any lookup holds it.
C17_SharedReadsExclusiveWrites ==
    /\ \A p, q \in Procs :
           (pc[p] = "q_drop" /\ pc[q] = "q_drop" /\ advisory[p] = advisory[q]) =>
               /\ resp[p] = resp[q]
               /\ published[advisory[p]].present =>
                      resp[p] = BytesResponse(200, published[advisory[p]].data)
    /\ \A w, q \in Procs :
           (HoldsWrite(w) /\ kind[q] = "query" /\ param[q] # NoKey) =>
               /\ pc[q] = "q_wait"
               /\ ~ENABLED read_acquired(q)
    /\ \A w \in Procs :
           (pc[w] = "p_wait" /\ readers # {}) => ~ENABLED write_acquired(w)

\* two lookups of a published identifier hold the handle together with the
\* same 200 response
C17_Witness ==
    \E p, q \in Procs :
        /\ p # q
        /\ pc[p] = "q_drop"
        /\ pc[q] = "q_drop"
        /\ advisory[p] = advisory[q]
        /\ {p, q} \subseteq readers
        /\ resp[p].status = 200
        /\ resp[p].bytes # <<>>
        /\ resp[q] = resp[p]

\* --------------------------------------------------------------- C18
\* C18: the store changes only in the step in which the one put of a publish
\* returns Ok, and then only under that publish's identifier, which then
\* holds the object that put was given; a publish whose put returned Ok made
\* exactly one store call; a step of a lookup, of a refused request, of a
\* health probe or of a publish whose put failed leaves the store as it was.
C18_MutationsAccounted ==
    [][ /\ store' # store =>
               \E p \in Procs :
                   /\ kind[p] = "publish"
                   /\ pc[p] = "p_put"
                   /\ pc'[p] = "p_drop"
                   /\ putres'[p] = "Ok"
                   /\ \A k \in Key : k # advisory[p] => store'[k] = store[k]
                   /\ store'[advisory[p]] = Object(data[p], compressed[p])
        /\ \A p \in Procs :
               (pc[p] = "p_put" /\ pc'[p] = "p_drop") =>
                   /\ calls'[p] = 1
                   /\ putres'[p] = "Ok" =>
                          store' = [store EXCEPT ![advisory[p]] =
                                        Object(data[p], compressed[p])]
                   /\ putres'[p] # "Ok" => store' = store
        /\ \A p \in Procs :
               (pc'[p] # pc[p] /\ ~(pc[p] = "p_put" /\ putres'[p] = "Ok")) =>
                   store' = store
      ]_vars

\* a publish has stored its object with one put while another identifier
\* still holds the object of an earlier publish
C18_Witness ==
    \E p \in Procs, k \in Key :
        /\ pc[p] = "p_drop"
        /\ putres[p] = "Ok"
        /\ calls[p] = 1
        /\ k # advisory[p]
        /\ store[advisory[p]] = Object(data[p], compressed[p])
        /\ store[k].present
        /\ published[k].present
        /\ Payload(store[k]) = published[k].data
        /\ store[k] # store[advisory[p]]

\* --------------------------------------------------------------- C19
\* C19: a lookup whose store get failed, with NotFound or with any other
\* error, has built the response 404 with an empty body and no text, so the
\* response does not depend on the kind of the error; no lookup of a
\* readable or unreadable store reports a 500 for a failed get.
C19_GetFailureIsNotFound ==
    \A p \in Procs :
        pc[p] = "q_drop" =>
            /\ geterr[p] # "" => resp[p] = BytesResponse(404, <<>>)
            /\ resp[p].status = 500 => (geterr[p] = "" /\ got[p].present)

\* a lookup of a stored identifier got a read error and answers 404, next to a
\* lookup of an unknown identifier with the same response
C19_Witness ==
    \E p, q \in Procs :
        /\ pc[p] = "q_drop"
        /\ geterr[p] \in StoreErrors
        /\ store[advisory[p]].present
        /\ resp[p].status = 404
        /\ pc[q] = "q_drop"
        /\ geterr[q] = "NotFound"
        /\ resp[q] = resp[p]

\* --------------------------------------------------------------- C20
\* C20: under a fair lock and a store whose calls return, a lookup or a
\* publish that waits for the store handle eventually holds it, a handler
\* that holds it eventually has its response, and a handler that has its
\* response eventually has returned; a handler that has returned holds no
\* guard and waits for none.
C20_EveryRequestCompletes ==
    \A p \in Procs :
        /\ [](pc[p] = "idle" =>
                  (p \notin readers /\ p \notin Range(writers) /\ p \notin Range(waiters)))
        /\ (pc[p] = "q_wait") ~> HoldsRead(p)
        /\ (pc[p] = "p_wait") ~> HoldsWrite(p)
        /\ HoldsRead(p) ~> (pc[p] = "q_drop" /\ resp[p].status \in {200, 404, 500})
        /\ HoldsWrite(p) ~> (pc[p] = "p_drop" /\ resp[p].status \in {201, 500})
        /\ (pc[p] \in {"q_drop", "p_drop"}) ~> (pc[p] = "idle")

\* a publish waits for the handle behind a lookup that holds it and answers
\* with a decode failure
C20_Witness ==
    \E p, q \in Procs :
        /\ pc[p] = "p_wait"
        /\ pc[q] = "q_drop"
        /\ q \in readers
        /\ resp[q].status = 500
====
